---------------------------- MODULE Spec2Model ----------------------------
(***************************************************************************)
(* A model of the chess rules engine and game controller of                *)
(* src/chess_game.py: class Board (grid, side to move, attack detection,   *)
(* pseudo-legal and legal move generation) and the part of class ChessGame *)
(* that changes the game state (_handle_click, _make_move,                 *)
(* _ai_move_if_needed, reset).                                             *)
(*                                                                         *)
(* A square is a pair <<r, c>>, row 0 at the top (Black's back rank).  A   *)
(* move is a pair <<src, dst>> of squares.  Python lists are sequences, in *)
(* the order the code appends to them.                                     *)
(***************************************************************************)
EXTENDS Integers, Sequences, FiniteSets, TLC

ROWS == 8
COLS == 8

WHITE == "w"
BLACK == "b"
Colors == {WHITE, BLACK}
Kinds == {"K", "Q", "R", "B", "N", "P"}

\* Piece(color, kind): the value of a Piece object.
Piece(color, kind) == [color |-> color, kind |-> kind]

\* Python's None in a grid cell.
None == [color |-> "-", kind |-> "-"]

\* Python's None where a square is expected (selected, king_position).
NoSquare == << >>

Rows == 0 .. (ROWS - 1)
Cols == 0 .. (COLS - 1)
Squares == Rows \X Cols

\* WHITE if color == BLACK else BLACK
Opponent(color) == IF color = BLACK THEN WHITE ELSE BLACK

\* Board.inside
inside(r, c) == 0 <= r /\ r < ROWS /\ 0 <= c /\ c < COLS

\* The order of the back rank in Board._setup.
back == <<"R", "N", "B", "Q", "K", "B", "N", "R">>

\* Board.__init__ followed by Board._setup: the grid of a new Board.
\* A grid maps every square to a Piece or None.
_setup ==
    [s \in Squares |->
        CASE s[1] = 0 -> Piece(BLACK, back[s[2] + 1])
          [] s[1] = 1 -> Piece(BLACK, "P")
          [] s[1] = 6 -> Piece(WHITE, "P")
          [] s[1] = 7 -> Piece(WHITE, back[s[2] + 1])
          [] OTHER    -> None]

\* Board(): a new board object, White to move.
NewBoard == [grid |-> _setup, to_move |-> WHITE]

\* Board.king_position: the first king of the color in row-major order,
\* NoSquare when there is none.
king_position(g, color) ==
    LET ks == {s \in Squares : g[s] = Piece(color, "K")}
    IN  IF ks = {} THEN NoSquare
        ELSE CHOOSE s \in ks :
                \A t \in ks : s[1] * COLS + s[2] <= t[1] * COLS + t[2]

KnightDeltas ==
    << <<-2, -1>>, <<-2, 1>>, <<-1, -2>>, <<-1, 2>>,
       <<1, -2>>, <<1, 2>>, <<2, -1>>, <<2, 1>> >>
KingDeltas ==
    << <<-1, -1>>, <<-1, 0>>, <<-1, 1>>, <<0, -1>>,
       <<0, 1>>, <<1, -1>>, <<1, 0>>, <<1, 1>> >>
StraightDeltas == << <<-1, 0>>, <<1, 0>>, <<0, -1>>, <<0, 1>> >>
DiagonalDeltas == << <<-1, -1>>, <<-1, 1>>, <<1, -1>>, <<1, 1>> >>
QueenDeltas == DiagonalDeltas \o StraightDeltas

\* ray_attacked without the test of the color of the first piece met.
RECURSIVE ray_attacked_any_color(_, _, _, _, _, _, _)
ray_attacked_any_color(g, rr, cc, dr, dc, by_color, kinds) ==
    IF ~inside(rr, cc) THEN FALSE
    ELSE LET p == g[<<rr, cc>>]
         IN  IF p # None
             THEN p.kind \in kinds
             ELSE ray_attacked_any_color(g, rr + dr, cc + dc, dr, dc,
                                         by_color, kinds)

\* ray_attacked looking at the first square of the ray only.
ray_attacked_one_step(g, rr, cc, dr, dc, by_color, kinds) ==
    /\ inside(rr, cc)
    /\ g[<<rr, cc>>] # None
    /\ g[<<rr, cc>>].color = by_color
    /\ g[<<rr, cc>>].kind \in kinds

\* The while loop of the sliding-piece scans of is_square_attacked, from
\* square (rr, cc) on: the first occupied square of the ray decides.
RECURSIVE ray_attacked(_, _, _, _, _, _, _)
ray_attacked(g, rr, cc, dr, dc, by_color, kinds) ==
    IF ~inside(rr, cc) THEN FALSE
    ELSE LET p == g[<<rr, cc>>]
         IN  IF p # None
             THEN p.color = by_color /\ p.kind \in kinds
             ELSE ray_attacked(g, rr + dr, cc + dc, dr, dc, by_color, kinds)

\* The direction in which is_square_attacked looks for a pawn of by_color,
\* as the code has it: dir = -1 if by_color == WHITE else 1.
attack_pawn_dir(by_color) == IF by_color = WHITE THEN -1 ELSE 1

\* Board.is_square_attacked
is_square_attacked(g, r, c, by_color) ==
    \/ \E i \in DOMAIN KnightDeltas :
          LET rr == r + KnightDeltas[i][1]
              cc == c + KnightDeltas[i][2]
          IN  inside(rr, cc) /\ g[<<rr, cc>>] = Piece(by_color, "N")
    \/ \E dc \in {-1, 1} :
          LET rr == r + attack_pawn_dir(by_color)
              cc == c + dc
          IN  inside(rr, cc) /\ g[<<rr, cc>>] = Piece(by_color, "P")
    \/ \E i \in DOMAIN KingDeltas :
          LET rr == r + KingDeltas[i][1]
              cc == c + KingDeltas[i][2]
          IN  inside(rr, cc) /\ g[<<rr, cc>>] = Piece(by_color, "K")
    \/ \E i \in DOMAIN StraightDeltas :
          LET dr == StraightDeltas[i][1]
              dc == StraightDeltas[i][2]
          IN  ray_attacked(g, r + dr, c + dc, dr, dc, by_color, {"R", "Q"})
    \/ \E i \in DOMAIN DiagonalDeltas :
          LET dr == DiagonalDeltas[i][1]
              dc == DiagonalDeltas[i][2]
          IN  ray_attacked(g, r + dr, c + dc, dr, dc, by_color, {"B", "Q"})

\* Board.is_in_check
is_in_check(g, color) ==
    LET kpos == king_position(g, color)
    IN  IF kpos = NoSquare THEN FALSE
        ELSE is_square_attacked(g, kpos[1], kpos[2], Opponent(color))

\* _pawn_moves with the two-step move left out.
_pawn_moves_single_step(g, r, c, color) ==
    LET dir == IF color = WHITE THEN -1 ELSE 1
        nr == r + dir
        forward ==
            IF inside(nr, c) /\ g[<<nr, c>>] = None
            THEN << <<(<<r, c>>), (<<nr, c>>)>> >>
            ELSE << >>
        capture(dc) ==
            IF inside(nr, c + dc) /\ g[<<nr, c + dc>>] # None
               /\ g[<<nr, c + dc>>].color # color
            THEN << <<(<<r, c>>), (<<nr, c + dc>>)>> >>
            ELSE << >>
    IN  forward \o capture(-1) \o capture(1)

\* Board._pawn_moves
_pawn_moves(g, r, c, color) ==
    LET dir == IF color = WHITE THEN -1 ELSE 1
        start_row == IF color = WHITE THEN 6 ELSE 1
        nr == r + dir
        nr2 == r + 2 * dir
        forward ==
            IF inside(nr, c) /\ g[<<nr, c>>] = None
            THEN << <<(<<r, c>>), (<<nr, c>>)>> >> \o
                 (IF r = start_row /\ g[<<nr2, c>>] = None
                  THEN << <<(<<r, c>>), (<<nr2, c>>)>> >>
                  ELSE << >>)
            ELSE << >>
        capture(dc) ==
            IF inside(nr, c + dc) /\ g[<<nr, c + dc>>] # None
               /\ g[<<nr, c + dc>>].color # color
            THEN << <<(<<r, c>>), (<<nr, c + dc>>)>> >>
            ELSE << >>
    IN  forward \o capture(-1) \o capture(1)

\* The candidate moves from (r, c) by a list of single-step offsets, in the
\* order of the offsets, without the destinations off the board.
offset_moves(r, c, deltas) ==
    LET all == [i \in 1 .. Len(deltas) |->
                   <<(<<r, c>>), (<<r + deltas[i][1], c + deltas[i][2]>>)>>]
        on_board(m) == inside(m[2][1], m[2][2])
    IN  SelectSeq(all, on_board)

\* Board._knight_moves
_knight_moves(g, r, c, color) ==
    LET ok(m) == g[m[2]] = None \/ g[m[2]].color # color
    IN  SelectSeq(offset_moves(r, c, KnightDeltas), ok)

\* ray_scan going on behind an opposing piece.
RECURSIVE ray_scan_through(_, _, _, _, _, _, _, _)
ray_scan_through(g, r, c, color, nr, nc, dr, dc) ==
    IF ~inside(nr, nc) THEN << >>
    ELSE LET t == g[<<nr, nc>>]
         IN  IF t = None \/ t.color # color
             THEN << <<(<<r, c>>), (<<nr, nc>>)>> >> \o
                  ray_scan_through(g, r, c, color, nr + dr, nc + dc, dr, dc)
             ELSE << >>

\* The while loop of Board._ray_moves for one direction, from (nr, nc) on.
RECURSIVE ray_scan(_, _, _, _, _, _, _, _)
ray_scan(g, r, c, color, nr, nc, dr, dc) ==
    IF ~inside(nr, nc) THEN << >>
    ELSE LET t == g[<<nr, nc>>]
         IN  IF t = None
             THEN << <<(<<r, c>>), (<<nr, nc>>)>> >> \o
                  ray_scan(g, r, c, color, nr + dr, nc + dc, dr, dc)
             ELSE IF t.color # color
                  THEN << <<(<<r, c>>), (<<nr, nc>>)>> >>
                  ELSE << >>

\* The for loop of Board._ray_moves over the directions, from index i on.
RECURSIVE ray_loop(_, _, _, _, _, _)
ray_loop(g, r, c, color, deltas, i) ==
    IF i > Len(deltas) THEN << >>
    ELSE ray_scan(g, r, c, color, r + deltas[i][1], c + deltas[i][2],
                  deltas[i][1], deltas[i][2])
         \o ray_loop(g, r, c, color, deltas, i + 1)

\* Board._ray_moves
_ray_moves(g, r, c, color, deltas) == ray_loop(g, r, c, color, deltas, 1)

\* Board._bishop_moves
_bishop_moves(g, r, c, color) == _ray_moves(g, r, c, color, DiagonalDeltas)

\* Board._rook_moves
_rook_moves(g, r, c, color) == _ray_moves(g, r, c, color, StraightDeltas)

\* Board._queen_moves
_queen_moves(g, r, c, color) == _ray_moves(g, r, c, color, QueenDeltas)

\* _king_moves without the test of the destination by is_square_attacked.
_king_moves_unfiltered(g, r, c, color) ==
    LET ok(m) == g[m[2]] = None \/ g[m[2]].color # color
    IN  SelectSeq(offset_moves(r, c, KingDeltas), ok)

\* _king_moves testing the destination for attacks by the king's own color.
_king_moves_own_color(g, r, c, color) ==
    LET ok(m) ==
            /\ g[m[2]] = None \/ g[m[2]].color # color
            /\ ~is_square_attacked(g, m[2][1], m[2][2], color)
    IN  SelectSeq(offset_moves(r, c, KingDeltas), ok)

\* Board._king_moves
_king_moves(g, r, c, color) ==
    LET ok(m) ==
            /\ g[m[2]] = None \/ g[m[2]].color # color
            /\ ~is_square_attacked(g, m[2][1], m[2][2], Opponent(color))
    IN  SelectSeq(offset_moves(r, c, KingDeltas), ok)

\* The moves of the piece on (r, c), if it has the color: the body of the
\* loops of generate_pseudo_legal_moves.
piece_moves(g, r, c, color) ==
    LET p == g[<<r, c>>]
    IN  IF p = None \/ p.color # color THEN << >>
        ELSE CASE p.kind = "P" -> _pawn_moves(g, r, c, color)
               [] p.kind = "N" -> _knight_moves(g, r, c, color)
               [] p.kind = "B" -> _bishop_moves(g, r, c, color)
               [] p.kind = "R" -> _rook_moves(g, r, c, color)
               [] p.kind = "Q" -> _queen_moves(g, r, c, color)
               [] p.kind = "K" -> _king_moves(g, r, c, color)

\* The row-major loops of generate_pseudo_legal_moves over the squares
\* numbered lo .. hi (square n is row n \div COLS, column n % COLS): the
\* moves of the squares in that order.  The range is halved instead of
\* walked, which gives the same list.
RECURSIVE pseudo_range(_, _, _, _)
pseudo_range(g, color, lo, hi) ==
    IF lo = hi THEN piece_moves(g, lo \div COLS, lo % COLS, color)
    ELSE LET mid == (lo + hi) \div 2
         IN  pseudo_range(g, color, lo, mid)
             \o pseudo_range(g, color, mid + 1, hi)

\* Board.generate_pseudo_legal_moves
generate_pseudo_legal_moves(g, color) ==
    pseudo_range(g, color, 0, ROWS * COLS - 1)

\* The set of the elements of a Python list.
Range(seq) == {seq[i] : i \in DOMAIN seq}

(***************************************************************************)
(* Board objects.  A board is a record [grid, to_move].  generate_legal_   *)
(* moves works on two objects, the board it is called on ("self") and the  *)
(* board it simulates a candidate on ("b2"); a heap maps these references  *)
(* to boards, so that what a write through one reference does to the other *)
(* is part of the model.                                                   *)
(***************************************************************************)

\* copy handing back the object itself instead of a new one.
copy_alias(h, ref) == [heap |-> h, ref |-> ref]

\* Board.copy on the object `ref`: a new object with its own grid, and the
\* reference to it.
copy(h, ref) ==
    [heap |-> [self |-> h.self,
               b2   |-> [grid |-> h[ref].grid, to_move |-> h[ref].to_move]],
     ref |-> "b2"]

\* Board._make_move_no_checks on a grid: grid[dr][dc] = p, then
\* grid[sr][sc] = None.
_make_move_no_checks(g, src, dst) ==
    LET p == g[src]
    IN  [[g EXCEPT ![dst] = p] EXCEPT ![src] = None]

\* Whether a piece moved to dst is a pawn on its last row.
promotes(piece, dst) ==
    /\ piece # None
    /\ piece.kind = "P"
    /\ \/ piece.color = WHITE /\ dst[1] = 0
       \/ piece.color = BLACK /\ dst[1] = 7

\* legal_step with every candidate taken as legal.
legal_step_unfiltered(h, color, src, dst) ==
    LET cp == copy(h, "self")
        h1 == [cp.heap EXCEPT ![cp.ref].grid =
                  _make_move_no_checks(@, src, dst)]
    IN  [heap |-> h1, legal |-> TRUE]

\* The body of the loop of generate_legal_moves for the candidate
\* <<src, dst>>: the heap after it, and whether the candidate is legal.
legal_step(h, color, src, dst) ==
    LET cp == copy(h, "self")
        h1 == [cp.heap EXCEPT ![cp.ref].grid =
                  _make_move_no_checks(@, src, dst)]
        piece == h1["self"].grid[src]
        h2 == IF promotes(piece, dst)
              THEN [h1 EXCEPT ![cp.ref].grid[dst] = Piece(piece.color, "Q")]
              ELSE h1
    IN  [heap |-> h2, legal |-> ~is_in_check(h2[cp.ref].grid, color)]

\* The loop of generate_legal_moves over the candidates lo .. hi of the
\* list, in order, from heap h: the legal ones among them and the heap
\* after the last.  The range is halved instead of walked; the heap is
\* passed from each half to the next, as the loop passes it on.
RECURSIVE legal_range(_, _, _, _, _)
legal_range(h, color, pseudo, lo, hi) ==
    IF lo > hi THEN [moves |-> << >>, heap |-> h]
    ELSE IF lo = hi
    THEN LET st == legal_step(h, color, pseudo[lo][1], pseudo[lo][2])
         IN  [moves |-> IF st.legal THEN <<pseudo[lo]>> ELSE << >>,
              heap |-> st.heap]
    ELSE LET mid == (lo + hi) \div 2
             left == legal_range(h, color, pseudo, lo, mid)
             right == legal_range(left.heap, color, pseudo, mid + 1, hi)
         IN  [moves |-> left.moves \o right.moves, heap |-> right.heap]

\* Board.generate_legal_moves on board b: the list it returns (moves) and
\* the board it was called on as the call leaves it (board).
generate_legal_moves(b, color) ==
    LET pseudo == generate_pseudo_legal_moves(b.grid, color)
        res == legal_range([self |-> b], color, pseudo, 1, Len(pseudo))
    IN  [moves |-> res.moves, board |-> res.heap.self]

\* _make_move without the promotion.
_make_move_no_promotion(b, src, dst) ==
    [grid |-> _make_move_no_checks(b.grid, src, dst),
     to_move |-> IF b.to_move = WHITE THEN BLACK ELSE WHITE]

\* _make_move without the switch of the turn.
_make_move_keep_turn(b, src, dst) ==
    LET piece == b.grid[src]
        g1 == _make_move_no_checks(b.grid, src, dst)
        g2 == IF promotes(piece, dst)
              THEN [g1 EXCEPT ![dst] = Piece(piece.color, "Q")]
              ELSE g1
    IN  [grid |-> g2, to_move |-> b.to_move]

\* ChessGame._make_move on board b.
_make_move(b, src, dst) ==
    LET piece == b.grid[src]
        g1 == _make_move_no_checks(b.grid, src, dst)
        g2 == IF promotes(piece, dst)
              THEN [g1 EXCEPT ![dst] = Piece(piece.color, "Q")]
              ELSE g1
    IN  [grid |-> g2,
         to_move |-> IF b.to_move = WHITE THEN BLACK ELSE WHITE]

(***************************************************************************)
(* The state: a ChessGame object, and a record of the last operation.      *)
(***************************************************************************)
VARIABLES
    board,              \* self.board: a record [grid, to_move]
    selected,           \* self.selected, NoSquare for None
    legal_for_selected, \* self.legal_for_selected
    history,            \* the moves made on this board, oldest first
    last                \* the last operation: its kind, its arguments, the
                        \* board it started on and the list it returned

vars == <<board, selected, legal_for_selected, history, last>>

\* The number of moves made since the board was new.
plies == Len(history)

\* The cap on the number of moves of one game.
MaxPlies == 4

\* The squares the mouse is clicked on: f2, f3, g2 and g4.
ClickSquares == { <<6, 5>>, <<5, 5>>, <<6, 6>>, <<4, 6>> }

Op(op, color, src, dst, before, moves) ==
    [op |-> op, color |-> color, src |-> src, dst |-> dst,
     before |-> before, moves |-> moves]

\* ChessGame.__init__
Init ==
    /\ board = NewBoard
    /\ selected = NoSquare
    /\ legal_for_selected = << >>
    /\ history = << >>
    /\ last = Op("init", "-", NoSquare, NoSquare, NewBoard, << >>)

\* The destinations of the moves of a list that start on src.
dsts_from(moves, src) ==
    LET from_src(m) == m[1] = src
        sel == SelectSeq(moves, from_src)
    IN  [i \in 1 .. Len(sel) |-> sel[i][2]]

\* The list random.choice draws from in _ai_move_if_needed, given the legal
\* moves of Black on grid g: the captures if there are any.
ai_choices(g, legal) ==
    LET is_capture(m) == g[m[2]] # None
        captures == SelectSeq(legal, is_capture)
    IN  IF captures # << >> THEN captures ELSE legal

\* The selection branches of _handle_click (lines 378-385 and 394-401).
\* The call of generate_legal_moves is bound once, as res.
Select(r, c) ==
    \E res \in {generate_legal_moves(board, WHITE)} :
        /\ selected' = <<r, c>>
        /\ legal_for_selected' = dsts_from(res.moves, <<r, c>>)
        /\ board' = res.board
        /\ last' = Op("select", WHITE, <<r, c>>, NoSquare, board, res.moves)
        /\ UNCHANGED history

\* ChessGame._handle_click with the click on square (r, c).
HandleClick(r, c) ==
    /\ board.to_move = WHITE
    /\ inside(r, c)
    /\ LET p == board.grid[<<r, c>>]
       IN  IF selected = NoSquare
           THEN /\ p # None /\ p.color = WHITE
                /\ Select(r, c)
           ELSE IF <<r, c>> \in Range(legal_for_selected)
                THEN /\ board' = _make_move(board, selected, <<r, c>>)
                     /\ selected' = NoSquare
                     /\ legal_for_selected' = << >>
                     /\ history' = Append(history, <<selected, (<<r, c>>)>>)
                     /\ last' = Op("move", board.grid[selected].color,
                                   selected, <<r, c>>, board, << >>)
                ELSE IF p # None /\ p.color = WHITE
                     THEN Select(r, c)
                     ELSE /\ selected' = NoSquare
                          /\ legal_for_selected' = << >>
                          /\ last' = Op("deselect", WHITE, <<r, c>>, NoSquare,
                                        board, << >>)
                          /\ UNCHANGED <<board, history>>

\* ChessGame._ai_move_if_needed; random.choice is any element of the list.
\* The call of generate_legal_moves is bound once, as res.
AiMoveIfNeeded ==
    /\ board.to_move = BLACK
    /\ \E res \in {generate_legal_moves(board, BLACK)} :
          /\ res.moves # << >>
          /\ \E move \in Range(ai_choices(res.board.grid, res.moves)) :
                /\ board' = _make_move(res.board, move[1], move[2])
                /\ history' = Append(history, move)
                /\ last' = Op("move", res.board.grid[move[1]].color,
                              move[1], move[2], board, << >>)
          /\ UNCHANGED <<selected, legal_for_selected>>

\* ChessGame.reset
Reset ==
    /\ board' = NewBoard
    /\ selected' = NoSquare
    /\ legal_for_selected' = << >>
    /\ history' = << >>
    /\ last' = Op("reset", "-", NoSquare, NoSquare, NewBoard, << >>)

\* One event of the game loop: a click, the AI's turn or the R key.  A game
\* is followed for MaxPlies moves.
Next ==
    \/ plies < MaxPlies /\ \E sq \in ClickSquares : HandleClick(sq[1], sq[2])
    \/ plies < MaxPlies /\ AiMoveIfNeeded
    \/ Reset

Spec == Init /\ [][Next]_vars

(***************************************************************************)
(* A longer game on fewer squares: White clicks only on e2, e4, e1 and f3. *)
(***************************************************************************)

\* The cap on the number of moves of one such game.
KingWalkPlies == 6

KingWalkSquares == { <<6, 4>>, <<4, 4>>, <<7, 4>>, <<5, 5>> }

KingWalkNext ==
    \/ /\ plies < KingWalkPlies
       /\ \E sq \in KingWalkSquares : HandleClick(sq[1], sq[2])
    \/ plies < KingWalkPlies /\ AiMoveIfNeeded
    \/ Reset

KingWalkSpec == Init /\ [][KingWalkNext]_vars

(***************************************************************************)
(* The engine on positions set up by hand: the two kings and up to         *)
(* MaxExtra more pieces, written into the grid of a board one by one; then *)
(* generate_legal_moves is called on the position for a color, or a legal  *)
(* move of a color is applied to it with _make_move.                       *)
(***************************************************************************)

\* The number of pieces put on the board besides the kings.
MaxExtra == 2

WhiteKingSquare == <<2, 1>>
BlackKingSquare == <<0, 3>>

\* The squares and the pieces of the positions set up.
PlaceSquares == { <<0, 1>>, <<0, 2>>, <<1, 0>>, <<1, 1>>, <<1, 2>>, <<2, 2>> }
PlacePieces ==
    { Piece(WHITE, "P"), Piece(BLACK, "P"), Piece(WHITE, "Q"),
      Piece(BLACK, "R"), Piece(BLACK, "B") }

KingsBoard ==
    [grid |-> [s \in Squares |->
                  IF s = WhiteKingSquare THEN Piece(WHITE, "K")
                  ELSE IF s = BlackKingSquare THEN Piece(BLACK, "K")
                  ELSE None],
     to_move |-> WHITE]

PosInit ==
    /\ board = KingsBoard
    /\ selected = NoSquare
    /\ legal_for_selected = << >>
    /\ history = << >>
    /\ last = Op("init", "-", NoSquare, NoSquare, KingsBoard, << >>)

\* grid[r][c] = Piece(...): one more piece of the position.  No pawn is put
\* on row 0 or row 7, where the game never has one.
Place(sq, piece) ==
    /\ last.op \in {"init", "place"}
    /\ board.grid[sq] = None
    /\ Cardinality({s \in PlaceSquares : board.grid[s] # None}) < MaxExtra
    /\ piece.kind = "P" => sq[1] \notin {0, ROWS - 1}
    /\ \E b \in {[board EXCEPT !.grid[sq] = piece]} :
          /\ board' = b
          /\ last' = Op("place", "-", NoSquare, NoSquare, b, << >>)
    /\ UNCHANGED <<selected, legal_for_selected, history>>

\* board.generate_legal_moves(color) on the position.
CallLegal(color) ==
    /\ last.op \in {"init", "place"}
    /\ \E res \in {generate_legal_moves(board, color)} :
          /\ board' = res.board
          /\ last' = Op("legal", color, NoSquare, NoSquare, board, res.moves)
    /\ UNCHANGED <<selected, legal_for_selected, history>>

\* _make_move(src, dst) for a move of board.generate_legal_moves(color).
ApplyMove(color) ==
    /\ last.op \in {"init", "place"}
    /\ \E res \in {generate_legal_moves(board, color)} :
          \E move \in Range(res.moves) :
             /\ board' = _make_move(res.board, move[1], move[2])
             /\ history' = Append(history, move)
             /\ last' = Op("move", color, move[1], move[2], board, << >>)
    /\ UNCHANGED <<selected, legal_for_selected>>

PosNext ==
    \/ \E sq \in PlaceSquares, piece \in PlacePieces : Place(sq, piece)
    \/ \E color \in Colors : CallLegal(color)
    \/ \E color \in Colors : ApplyMove(color)

PosSpec == PosInit /\ [][PosNext]_vars

(***************************************************************************)
(* The claims.                                                             *)
(***************************************************************************)

\* The piece that _make_move moved in the last operation.
MovedPiece == last.before.grid[last.src]

\* C1: for every position, color c and move m of generate_legal_moves(c),
\* after m is applied with _make_move (the pawn that reaches its last row
\* replaced by a queen), is_in_check(c) is false on the resulting position.
\* Every move applied is one of generate_legal_moves(last.color).
C1_LegalMoveLeavesNoCheck ==
    last.op = "move" => ~is_in_check(board.grid, last.color)

\* A legal move was applied by a side that was in check before it.
C1_Witness ==
    /\ last.op = "move"
    /\ is_in_check(last.before.grid, last.color)
    /\ ~is_in_check(board.grid, last.color)

\* C2: on the standard starting position generate_legal_moves(WHITE)
\* returns exactly 20 moves, 8 single pawn steps, 8 double pawn steps and 4
\* knight moves, and after any one of them is applied
\* generate_legal_moves(BLACK) returns exactly 20 moves.
C2_StartingMoveCounts ==
    board = NewBoard =>
        LET w == generate_legal_moves(board, WHITE).moves
            kind_of(m) == board.grid[m[1]].kind
            rows_of(m) == m[1][1] - m[2][1]
            count(k, n) ==
                Cardinality({i \in DOMAIN w :
                                kind_of(w[i]) = k /\ rows_of(w[i]) = n})
        IN  /\ Len(w) = 20
            /\ Cardinality(Range(w)) = 20
            /\ count("P", 1) = 8
            /\ count("P", 2) = 8
            /\ Cardinality({i \in DOMAIN w : kind_of(w[i]) = "N"}) = 4
            /\ \A i \in DOMAIN w :
                  Len(generate_legal_moves(
                          _make_move(board, w[i][1], w[i][2]), BLACK).moves)
                  = 20

\* White has made its first move from the starting position and Black has
\* 20 legal moves.
C2_Witness ==
    /\ plies = 1
    /\ last.op = "move"
    /\ last.before = NewBoard
    /\ board.to_move = BLACK
    /\ Len(generate_legal_moves(board, BLACK).moves) = 20

\* C3: for every position on which generate_legal_moves is called and
\* every king of color c in it, no move of _king_moves, and so no king move
\* of generate_pseudo_legal_moves(c), has a destination that
\* is_square_attacked reports as attacked by the opponent of c, a
\* destination holding an opposing piece included.
C3_KingNeverStepsOnAttacked ==
    last.op = "legal" =>
        \A s \in Squares :
            (board.grid[s] # None /\ board.grid[s].kind = "K") =>
                LET color == board.grid[s].color
                    safe(m) == ~is_square_attacked(board.grid, m[2][1],
                                                   m[2][2], Opponent(color))
                IN  /\ \A m \in Range(_king_moves(board.grid, s[1], s[2],
                                                  color)) : safe(m)
                    /\ \A m \in Range(generate_pseudo_legal_moves(board.grid,
                                                                  color)) :
                          m[1] = s => safe(m)

\* generate_legal_moves was called for a color whose king stands next to an
\* opposing piece on an attacked square, and the capture is not in the list.
C3_Witness ==
    /\ last.op = "legal"
    /\ \E k \in Squares, i \in DOMAIN KingDeltas :
          LET d == <<k[1] + KingDeltas[i][1], k[2] + KingDeltas[i][2]>>
          IN  /\ board.grid[k] = Piece(last.color, "K")
              /\ inside(d[1], d[2])
              /\ board.grid[d] # None
              /\ board.grid[d].color = Opponent(last.color)
              /\ is_square_attacked(board.grid, d[1], d[2],
                                    Opponent(last.color))
              /\ <<k, d>> \notin Range(last.moves)
              /\ last.moves # << >>

\* C4: is_square_attacked agrees with move generation in both directions:
\* for every position, color c and square S holding a piece of the other
\* color, some piece of color c has a pseudo-legal move onto S (a capture)
\* if and only if is_square_attacked(S, c) is true.
C4_AttackAgreesWithCaptures ==
    \A c \in Colors :
        \A S \in Squares :
            (board.grid[S] # None /\ board.grid[S].color = Opponent(c)) =>
                ((\E m \in Range(generate_pseudo_legal_moves(board.grid, c)) :
                     m[2] = S)
                 <=> is_square_attacked(board.grid, S[1], S[2], c))

\* The four moves of fool's mate.
FoolsMate ==
    << <<(<<6, 5>>), (<<5, 5>>)>>, <<(<<1, 4>>), (<<3, 4>>)>>,
       <<(<<6, 6>>), (<<4, 6>>)>>, <<(<<0, 3>>), (<<4, 7>>)>> >>

\* C5: fool's mate is recognised as checkmate.  While a game follows the
\* four moves from the starting position, each move made is in the list of
\* legal moves of the side to move on the board it is made on; after the
\* fourth, generate_legal_moves(WHITE) is empty and is_in_check(WHITE) is
\* true.
C5_FoolsMateIsCheckmate ==
    /\ (last.op = "move" /\ plies <= Len(FoolsMate)
           /\ history = SubSeq(FoolsMate, 1, plies)) =>
          /\ last.color = last.before.to_move
          /\ <<last.src, last.dst>> \in
                Range(generate_legal_moves(last.before, last.color).moves)
    /\ history = FoolsMate =>
          /\ generate_legal_moves(board, WHITE).moves = << >>
          /\ is_in_check(board.grid, WHITE)

\* The game has played the four moves of fool's mate.
C5_Witness == history = FoolsMate /\ last.op = "move"

\* C6: after _make_move(src, dst) square src is empty; square dst holds a
\* queen of the mover's color when the piece moved was a white pawn and dst
\* is on row 0, or a black pawn and dst is on row 7, and the piece moved
\* otherwise; every other square is unchanged.
C6_MoveApplication ==
    last.op = "move" =>
        LET p == MovedPiece
            queened == \/ p = Piece(WHITE, "P") /\ last.dst[1] = 0
                       \/ p = Piece(BLACK, "P") /\ last.dst[1] = 7
        IN  /\ board.grid[last.src] = None
            /\ board.grid[last.dst] =
                  (IF queened THEN Piece(p.color, "Q") ELSE p)
            /\ \A s \in Squares \ {last.src, last.dst} :
                  board.grid[s] = last.before.grid[s]

\* A white pawn has captured onto row 0 and is a queen there.
C6_Witness ==
    /\ last.op = "move"
    /\ MovedPiece = Piece(WHITE, "P")
    /\ last.dst[1] = 0
    /\ last.before.grid[last.dst] # None
    /\ board.grid[last.dst] = Piece(WHITE, "Q")

\* The pseudo-legal moves of a color that take a pawn to its last row.
PromotionMoves(g, color) ==
    {m \in Range(generate_pseudo_legal_moves(g, color)) :
        promotes(g[m[1]], m[2])}

\* The grid after the move m, with a piece of the given kind and of the
\* mover's color on the destination.
SimulatedAs(g, m, kind) ==
    [_make_move_no_checks(g, m[1], m[2]) EXCEPT
        ![m[2]] = Piece(g[m[1]].color, kind)]

\* Some pawn move of the color onto the last row is judged differently by
\* is_in_check(color) with a queen on the destination than with the pawn.
SubstitutionMatters(g, color) ==
    \E m \in PromotionMoves(g, color) :
        is_in_check(SimulatedAs(g, m, "Q"), color)
        # is_in_check(SimulatedAs(g, m, "P"), color)

\* The legal moves as the filter gives them without the substitution.
legal_moves_without_substitution(b, color) ==
    LET ok(m) == ~is_in_check(_make_move_no_checks(b.grid, m[1], m[2]), color)
    IN  SelectSeq(generate_pseudo_legal_moves(b.grid, color), ok)

\* The grids the Place steps build: the two kings and up to MaxExtra pieces.
PlacedGrids ==
    LET placements ==
            {f \in [PlaceSquares -> PlacePieces \cup {None}] :
                /\ Cardinality({s \in PlaceSquares : f[s] # None}) <= MaxExtra
                /\ \A s \in PlaceSquares :
                      (f[s] # None /\ f[s].kind = "P") =>
                          s[1] \notin {0, ROWS - 1}}
    IN  {[s \in Squares |->
             IF s \in PlaceSquares THEN f[s] ELSE KingsBoard.grid[s]] :
         f \in placements}

\* C7 as claimed: there is a position with a pseudo-legal pawn move onto
\* the last row for which is_in_check(mover) on the simulated successor
\* differs between the queen and the pawn on the destination, so that
\* generate_legal_moves returns another set of moves than it would without
\* the substitution.  The position is looked for, before any piece is
\* placed, among all the grids the Place steps build.
C7_SubstitutionMatters ==
    last.op = "init" =>
        \E g \in PlacedGrids, color \in Colors :
            /\ SubstitutionMatters(g, color)
            /\ Range(generate_legal_moves([grid |-> g, to_move |-> color],
                                          color).moves)
               # Range(legal_moves_without_substitution(
                           [grid |-> g, to_move |-> color], color))

\* C7 as amended: for every position and every pseudo-legal pawn move onto
\* the last row, is_in_check(mover) on the simulated successor is the same
\* with a queen as with the pawn on the destination, and
\* generate_legal_moves returns the list it would return without the
\* substitution.
C7_SubstitutionNeverMatters ==
    last.op = "legal" =>
        /\ ~SubstitutionMatters(last.before.grid, last.color)
        /\ last.moves = legal_moves_without_substitution(last.before,
                                                         last.color)

\* generate_legal_moves was called on a position in which a pawn of the
\* color can capture onto its last row, and kept the move; the new queen
\* then gives check, which the pawn would not.
C7_Witness ==
    /\ last.op = "legal"
    /\ \E m \in PromotionMoves(last.before.grid, last.color) :
          /\ m \in Range(last.moves)
          /\ last.before.grid[m[2]] # None
          /\ is_in_check(SimulatedAs(last.before.grid, m, "Q"),
                         Opponent(last.color))
          /\ ~is_in_check(SimulatedAs(last.before.grid, m, "P"),
                          Opponent(last.color))

\* The directions of the rays of a bishop, a rook and a queen.
RayDirections(kind) ==
    {d \in {-1, 0, 1} \X {-1, 0, 1} :
        /\ d # <<0, 0>>
        /\ kind = "B" => (d[1] # 0 /\ d[2] # 0)
        /\ kind = "R" => (d[1] = 0 \/ d[2] = 0)}

\* The k-th square from s in direction d.
RaySquare(s, d, k) == <<s[1] + k * d[1], s[2] + k * d[2]>>

\* The squares of the ray from s in direction d.
Ray(s, d) == {t \in Squares : \E k \in 1 .. ROWS : t = RaySquare(s, d, k)}

\* The squares of the ray from s in direction d up to the first occupied
\* one: the empty ones before it, and it if it holds a piece of the other
\* color.
OpenRay(g, s, d) ==
    {t \in Squares :
        \E k \in 1 .. ROWS :
            /\ t = RaySquare(s, d, k)
            /\ \A j \in 1 .. (k - 1) : g[RaySquare(s, d, j)] = None
            /\ g[t] = None \/ g[t].color # g[s].color}

\* C8: for every position, every bishop, rook and queen and every ray
\* direction of the piece, the destinations produced on the ray are the
\* empty squares up to the first occupied square, and that square if and
\* only if it holds a piece of the other color; nothing behind it is
\* produced, and nothing off the rays.
C8_BlockedRay ==
    last.op = "legal" =>
        \A s \in Squares :
            (board.grid[s] # None /\ board.grid[s].kind \in {"B", "R", "Q"}) =>
                LET p == board.grid[s]
                    moves == piece_moves(board.grid, s[1], s[2], p.color)
                    dsts == {m[2] : m \in Range(moves)}
                IN  /\ \A m \in Range(moves) : m[1] = s
                    /\ Cardinality(dsts) = Len(moves)
                    /\ \A d \in RayDirections(p.kind) :
                          dsts \cap Ray(s, d) = OpenRay(board.grid, s, d)
                    /\ \A t \in dsts :
                          \E d \in RayDirections(p.kind) : t \in Ray(s, d)

\* generate_legal_moves was called on a position with a bishop, rook or
\* queen that has on one ray an opposing piece with a square behind it, and
\* on another ray a piece of its own color as the first piece.
C8_Witness ==
    /\ last.op = "legal"
    /\ \E s \in Squares :
          /\ board.grid[s] # None
          /\ board.grid[s].kind \in {"B", "R", "Q"}
          /\ board.grid[s].color = last.color
          /\ \E d \in RayDirections(board.grid[s].kind), k \in 1 .. ROWS :
                /\ inside(RaySquare(s, d, k + 1)[1], RaySquare(s, d, k + 1)[2])
                /\ board.grid[RaySquare(s, d, k)] # None
                /\ board.grid[RaySquare(s, d, k)].color # last.color
                /\ RaySquare(s, d, k) \in OpenRay(board.grid, s, d)
          /\ \E d \in RayDirections(board.grid[s].kind), k \in 1 .. ROWS :
                /\ inside(RaySquare(s, d, k)[1], RaySquare(s, d, k)[2])
                /\ board.grid[RaySquare(s, d, k)] # None
                /\ board.grid[RaySquare(s, d, k)].color = last.color
                /\ \A j \in 1 .. (k - 1) :
                      board.grid[RaySquare(s, d, j)] = None

\* C9: generate_legal_moves(color) leaves the position it is called on
\* unchanged: after the call every square of grid holds what it held
\* before, and to_move is what it was.
C9_LegalMovesLeavePosition ==
    last.op = "legal" =>
        /\ \A s \in Squares : board.grid[s] = last.before.grid[s]
        /\ board.to_move = last.before.to_move

\* generate_legal_moves was called on a position in which it simulated
\* several candidates, kept some and rejected some.
C9_Witness ==
    /\ last.op = "legal"
    /\ last.moves # << >>
    /\ Len(last.moves)
          < Len(generate_pseudo_legal_moves(last.before.grid, last.color))

\* C10: in every state of a game played from the starting position the
\* board holds exactly one white king and exactly one black king.
C10_OneKingEach ==
    \A c \in Colors :
        Cardinality({s \in Squares : board.grid[s] = Piece(c, "K")}) = 1

\* A step in which _make_move is executed: one more move on the board.
MoveMade == Len(history') = Len(history) + 1

\* The move of such a step.
MoveOfStep == history'[Len(history')]

\* C11: turns alternate strictly in the game loop.  In every step of a game
\* in which _make_move is executed, whatever clicks, AI steps and resets
\* came before: the piece moved has the color board.to_move, the move is in
\* generate_legal_moves(board.to_move) of the board of that moment, and
\* to_move is flipped; a move by a click (one that ends a selection) is made
\* only while to_move is WHITE, a move by the AI (selection untouched) only
\* while to_move is BLACK; and the moves made since construction or the
\* last reset are White's, Black's, White's, ... in turn.
C11_TurnsAlternate ==
    [][MoveMade =>
          /\ board.grid[MoveOfStep[1]] # None
          /\ board.grid[MoveOfStep[1]].color = board.to_move
          /\ MoveOfStep \in
                Range(generate_legal_moves(board, board.to_move).moves)
          /\ board'.to_move = Opponent(board.to_move)
          /\ selected' # selected => board.to_move = WHITE
          /\ selected' = selected => board.to_move = BLACK
          /\ board.to_move = (IF Len(history) % 2 = 0 THEN WHITE ELSE BLACK)
      ]_vars

\* White has moved by a click and Black has answered through the AI: two
\* moves are on the board, the second by a black piece made while to_move
\* was BLACK, and it is White's turn again with nothing selected.
C11_Witness ==
    /\ plies = 2
    /\ last.op = "move"
    /\ last.color = BLACK
    /\ last.before.to_move = BLACK
    /\ last.before.grid[history[1][2]].color = WHITE
    /\ board.to_move = WHITE
    /\ selected = NoSquare

\* The king rule of the reference generator: adjacent, on the board, empty
\* or held by an opposing piece.
reference_king_moves(g, r, c, color) ==
    LET adjacent == {d \in {-1, 0, 1} \X {-1, 0, 1} : d # <<0, 0>>}
    IN  {<<(<<r, c>>), t>> : t \in
            {t \in Squares :
                /\ <<t[1] - r, t[2] - c>> \in adjacent
                /\ g[t] = None \/ g[t].color # color}}

\* The candidates of the reference generator: the pseudo-legal moves of the
\* pieces that are not kings, and the reference king moves.
reference_candidates(g, color) ==
    {m \in Range(generate_pseudo_legal_moves(g, color)) : g[m[1]].kind # "K"}
    \cup UNION {reference_king_moves(g, k[1], k[2], color) :
                   k \in {k \in Squares : g[k] = Piece(color, "K")}}

\* The reference generator: its candidates, filtered by copying the board,
\* applying the move, promoting and testing is_in_check.
reference_legal_moves(b, color) ==
    {m \in reference_candidates(b.grid, color) :
        ~is_in_check(_make_move(b, m[1], m[2]).grid, color)}

\* C12: the test of the destination by is_square_attacked in _king_moves
\* never changes the result of generate_legal_moves: for every position
\* with one king of color c, generate_legal_moves(c) returns the set of
\* moves of the reference generator.
C12_KingPreFilterRedundant ==
    last.op = "legal" =>
        Range(last.moves) = reference_legal_moves(last.before, last.color)

\* generate_legal_moves was called for a color whose king has a reference
\* move that _king_moves leaves out, a reference move that _king_moves keeps
\* and the filter rejects, and a move that is legal.
C12_Witness ==
    /\ last.op = "legal"
    /\ \E k \in Squares :
          /\ board.grid[k] = Piece(last.color, "K")
          /\ \E m \in reference_king_moves(board.grid, k[1], k[2], last.color) :
                m \notin Range(_king_moves(board.grid, k[1], k[2], last.color))
          /\ \E m \in Range(_king_moves(board.grid, k[1], k[2], last.color)) :
                m \notin Range(last.moves)
          /\ \E m \in Range(last.moves) : m[1] = k

=============================================================================
